---- MODULE Spec2Model ----
(***************************************************************************)
(* Model of solution.py: the hallway/rooms sorting puzzle, its move        *)
(* generator, its heuristic and the A* search that drives them.            *)
(*                                                                         *)
(* A puzzle state is the record [corridor, rooms]; corridor is a function  *)
(* on 0..HALL_LEN-1 and rooms a function on 0..3 of functions on           *)
(* 0..ROOM_DEPTH-1 (index 0 is the slot next to the hallway), so that the  *)
(* index arithmetic of the source is kept unchanged.  Slots hold "." or a  *)
(* unit type "A".."D".                                                     *)
(***************************************************************************)
EXTENDS Integers, Sequences, FiniteSets, TLC

\* ------------------------------------------------------------------------
\* Module-level tables of solution.py
\* ------------------------------------------------------------------------
Types == {"A", "B", "C", "D"}

COSTS == [t \in Types |-> CASE t = "A" -> 1 [] t = "B" -> 10
                             [] t = "C" -> 100 [] t = "D" -> 1000]

TARGET_ROOM_POS == [t \in Types |-> CASE t = "A" -> 2 [] t = "B" -> 4
                                       [] t = "C" -> 6 [] t = "D" -> 8]

ROOM_INDICES == [i \in 0..3 |-> 2 * i + 2]

INVALID_HALL_POS == {2, 4, 6, 8}

HALL_LEN == 11

ROOM_DEPTH == 2

\* the string 'ABCD', indexed from 0
ABCD == [i \in 0..3 |-> CASE i = 0 -> "A" [] i = 1 -> "B"
                           [] i = 2 -> "C" [] i = 3 -> "D"]

\* 'ABCD'.index(obj)
ABCD_index(obj) == CHOOSE i \in 0..3 : ABCD[i] = obj

\* Python's None, as returned by a_asterisk_search; no cost is negative
None == -1

Abs(x) == IF x < 0 THEN -x ELSE x

\* ------------------------------------------------------------------------
\* data_input: the diagram's two room rows become the start state
\* ------------------------------------------------------------------------
data_input(lines) ==
    [corridor |-> [pos \in 0..(HALL_LEN - 1) |-> "."],
     rooms    |-> [i \in 0..3 |->
                     [d \in 0..1 |-> IF d = 0 THEN lines.top[i]
                                              ELSE lines.bottom[i]]]]

\* ------------------------------------------------------------------------
\* is_completed, room_open
\* ------------------------------------------------------------------------
is_completed_lenient(st) ==
    \A i \in 0..3 :
        ~ \E d \in DOMAIN st.rooms[i] :
              st.rooms[i][d] # "." /\ st.rooms[i][d] # ABCD[i]

is_completed_inverted(st) ==
    \A i \in 0..3 :
        ~ \E d \in DOMAIN st.rooms[i] : st.rooms[i][d] = ABCD[i]

is_completed(st) ==
    \A i \in 0..3 :
        ~ \E d \in DOMAIN st.rooms[i] : st.rooms[i][d] # ABCD[i]

room_open_any(obj, room) == TRUE

room_open(obj, room) ==
    \A d \in DOMAIN room : room[d] = "." \/ room[d] = obj

\* ------------------------------------------------------------------------
\* moves_to_target: room -> hallway.  A move is <<new_state, energy>>.
\* ------------------------------------------------------------------------
\* lines 87-89: index of the shallowest occupied slot, ROOM_DEPTH if none
RECURSIVE first_occupied(_, _)
first_occupied(room, obj_idx) ==
    IF obj_idx < ROOM_DEPTH /\ room[obj_idx] = "."
    THEN first_occupied(room, obj_idx + 1)
    ELSE obj_idx

\* lines 101-109 / 116-124: the successor with the unit parked at pos
release_keep(st, room_id, obj_idx, pos) ==
    LET obj   == st.rooms[room_id][obj_idx]
        steps == obj_idx + 1 + Abs(pos - ROOM_INDICES[room_id])
    IN  << [corridor |-> [st.corridor EXCEPT ![pos] = obj],
            rooms    |-> st.rooms],
           steps * COSTS[obj] >>

release_flat(st, room_id, obj_idx, pos) ==
    LET obj   == st.rooms[room_id][obj_idx]
        steps == obj_idx + 1 + Abs(pos - ROOM_INDICES[room_id])
    IN  << [corridor |-> [st.corridor EXCEPT ![pos] = obj],
            rooms    |-> [st.rooms EXCEPT ![room_id][obj_idx] = "."]],
           steps >>

release_top(st, room_id, obj_idx, pos) ==
    LET obj   == st.rooms[room_id][obj_idx]
        steps == obj_idx + 1 + Abs(pos - ROOM_INDICES[room_id])
    IN  << [corridor |-> [st.corridor EXCEPT ![pos] = obj],
            rooms    |-> [st.rooms EXCEPT ![room_id][0] = "."]],
           steps * COSTS[obj] >>

release_short(st, room_id, obj_idx, pos) ==
    LET obj   == st.rooms[room_id][obj_idx]
        steps == obj_idx + Abs(pos - ROOM_INDICES[room_id])
    IN  << [corridor |-> [st.corridor EXCEPT ![pos] = obj],
            rooms    |-> [st.rooms EXCEPT ![room_id][obj_idx] = "."]],
           steps * COSTS[obj] >>

release(st, room_id, obj_idx, pos) ==
    LET obj   == st.rooms[room_id][obj_idx]
        steps == obj_idx + 1 + Abs(pos - ROOM_INDICES[room_id])
    IN  << [corridor |-> [st.corridor EXCEPT ![pos] = obj],
            rooms    |-> [st.rooms EXCEPT ![room_id][obj_idx] = "."]],
           steps * COSTS[obj] >>

\* lines 96-109: for pos in range(room_pos - 1, -1, -1)
RECURSIVE scan_left_through(_, _, _, _)
scan_left_through(st, room_id, obj_idx, pos) ==
    IF pos < 0 THEN << >>
    ELSE IF st.corridor[pos] # "." THEN << >>
    ELSE << release(st, room_id, obj_idx, pos) >>
            \o scan_left_through(st, room_id, obj_idx, pos - 1)

RECURSIVE scan_left(_, _, _, _)
scan_left(st, room_id, obj_idx, pos) ==
    IF pos < 0 THEN << >>
    ELSE IF st.corridor[pos] # "." THEN << >>
    ELSE IF pos \in INVALID_HALL_POS
         THEN scan_left(st, room_id, obj_idx, pos - 1)
    ELSE << release(st, room_id, obj_idx, pos) >>
            \o scan_left(st, room_id, obj_idx, pos - 1)

\* lines 111-124: for pos in range(room_pos + 1, HALL_LEN)
RECURSIVE scan_right_over(_, _, _, _)
scan_right_over(st, room_id, obj_idx, pos) ==
    IF pos >= HALL_LEN THEN << >>
    ELSE IF st.corridor[pos] # "." \/ pos \in INVALID_HALL_POS
         THEN scan_right_over(st, room_id, obj_idx, pos + 1)
    ELSE << release(st, room_id, obj_idx, pos) >>
            \o scan_right_over(st, room_id, obj_idx, pos + 1)

RECURSIVE scan_right(_, _, _, _)
scan_right(st, room_id, obj_idx, pos) ==
    IF pos >= HALL_LEN THEN << >>
    ELSE IF st.corridor[pos] # "." THEN << >>
    ELSE IF pos \in INVALID_HALL_POS
         THEN scan_right(st, room_id, obj_idx, pos + 1)
    ELSE << release(st, room_id, obj_idx, pos) >>
            \o scan_right(st, room_id, obj_idx, pos + 1)

moves_to_target(st, room_id) ==
    LET room     == st.rooms[room_id]
        room_pos == ROOM_INDICES[room_id]
        obj_idx  == first_occupied(room, 0)
    IN  IF \A d \in DOMAIN room : room[d] = "." THEN << >>
        ELSE IF room_open(ABCD[room_id], room)
                /\ \A d \in DOMAIN room :
                       room[d] = ABCD[room_id] \/ room[d] = "."
             THEN << >>
        ELSE IF obj_idx = ROOM_DEPTH THEN << >>
        ELSE scan_left(st, room_id, obj_idx, room_pos - 1)
             \o scan_right(st, room_id, obj_idx, room_pos + 1)

\* ------------------------------------------------------------------------
\* moves_from_hallway: hallway -> the unit's target room
\* ------------------------------------------------------------------------
\* lines 158-160: deepest empty slot of the room, -1 if none
shallowest_empty(target_room, depth) ==
    IF \E d \in 0..depth : target_room[d] = "."
    THEN CHOOSE d \in 0..depth :
            /\ target_room[d] = "."
            /\ \A d2 \in 0..(d - 1) : target_room[d2] # "."
    ELSE -1

RECURSIVE deepest_empty(_, _)
deepest_empty(target_room, depth) ==
    IF depth >= 0 /\ target_room[depth] # "."
    THEN deepest_empty(target_room, depth - 1)
    ELSE depth

Min2(a, b) == IF a < b THEN a ELSE b
Max2(a, b) == IF a < b THEN b ELSE a

moves_from_hallway(st, hall_pos) ==
    LET obj == st.corridor[hall_pos] IN
    IF obj = "." THEN << >>
    ELSE
      LET target_room_id  == ABCD_index(obj)
          target_room_pos == ROOM_INDICES[target_room_id]
          target_room     == st.rooms[target_room_id]
          start_pos       == Min2(hall_pos, target_room_pos) + 1
          end_pos         == Max2(hall_pos, target_room_pos)
          depth           == deepest_empty(target_room, ROOM_DEPTH - 1)
          steps           == Abs(hall_pos - target_room_pos) + depth + 1
      IN  IF ~ room_open(obj, target_room) THEN << >>
          ELSE IF \E pos \in start_pos..(end_pos - 1) : st.corridor[pos] # "."
               THEN << >>
          ELSE IF depth < 0 THEN << >>
          ELSE << << [corridor |-> [st.corridor EXCEPT ![hall_pos] = "."],
                      rooms    |-> [st.rooms EXCEPT
                                      ![target_room_id][depth] = obj]],
                     steps * COSTS[obj] >> >>

\* ------------------------------------------------------------------------
\* neighbors: rooms 0..3 first, then hallway positions 0..HALL_LEN-1
\* ------------------------------------------------------------------------
RECURSIVE room_moves(_, _)
room_moves(st, i) ==
    IF i >= 4 THEN << >>
    ELSE moves_to_target(st, i) \o room_moves(st, i + 1)

RECURSIVE hall_moves(_, _)
hall_moves(st, pos) ==
    IF pos >= HALL_LEN THEN << >>
    ELSE moves_from_hallway(st, pos) \o hall_moves(st, pos + 1)

neighbors(st) == room_moves(st, 0) \o hall_moves(st, 0)

\* ------------------------------------------------------------------------
\* heuristic
\* ------------------------------------------------------------------------
\* lines 208-213: the hallway units
RECURSIVE h_corridor(_, _)
h_corridor(st, pos) ==
    IF pos >= HALL_LEN THEN 0
    ELSE LET obj == st.corridor[pos] IN
         (IF obj = "." THEN 0
          ELSE (Abs(pos - TARGET_ROOM_POS[obj]) + ROOM_DEPTH) * COSTS[obj])
         + h_corridor(st, pos + 1)

\* lines 217-224: one slot of one room
h_slot_all(st, room_id, depth) ==
    LET obj == st.rooms[room_id][depth] IN
    IF obj = "." THEN 0
    ELSE (depth + 1
          + Abs(ROOM_INDICES[room_id] - TARGET_ROOM_POS[obj])
          + ROOM_DEPTH) * COSTS[obj]

h_slot(st, room_id, depth) ==
    LET obj == st.rooms[room_id][depth] IN
    IF obj = "." THEN 0
    ELSE IF obj # ABCD[room_id]
         THEN (depth + 1
               + Abs(ROOM_INDICES[room_id] - TARGET_ROOM_POS[obj])
               + ROOM_DEPTH) * COSTS[obj]
    ELSE 0

\* lines 215-224: the room units, slot k = room_id * ROOM_DEPTH + depth
RECURSIVE h_rooms(_, _)
h_rooms(st, k) ==
    IF k >= 4 * ROOM_DEPTH THEN 0
    ELSE h_slot(st, k \div ROOM_DEPTH, k % ROOM_DEPTH) + h_rooms(st, k + 1)

heuristic(st) == h_corridor(st, 0) + h_rooms(st, 0)

\* ------------------------------------------------------------------------
\* The priority queue: heapq over tuples (priority, cost, state)
\* ------------------------------------------------------------------------
\* ord() of a slot's character; Python compares the strings by it
ord(x) == CASE x = "." -> 46 [] x = "A" -> 65 [] x = "B" -> 66
            [] x = "C" -> 67 [] x = "D" -> 68

\* the slots of (corridor, rooms) in the order tuple comparison visits them
flat(st) ==
    [k \in 0..(HALL_LEN + 4 * ROOM_DEPTH - 1) |->
        IF k < HALL_LEN THEN ord(st.corridor[k])
        ELSE ord(st.rooms[(k - HALL_LEN) \div ROOM_DEPTH]
                         [(k - HALL_LEN) % ROOM_DEPTH])]

\* a < b for two states, as Python compares nested tuples of equal shape
state_lt(a, b) ==
    \E k \in DOMAIN flat(a) :
        /\ flat(a)[k] < flat(b)[k]
        /\ \A j \in 0..(k - 1) : flat(a)[j] = flat(b)[j]

\* a < b for two queue entries <<priority, cost, state>>
entry_lt(a, b) ==
    \/ a[1] < b[1]
    \/ a[1] = b[1] /\ a[2] < b[2]
    \/ a[1] = b[1] /\ a[2] = b[2] /\ state_lt(a[3], b[3])

\* The heap is kept as the set of its entries: a state is pushed only with a
\* cost strictly below its recorded one, so no entry is ever pushed twice,
\* and heappop returns the least entry of the tuple order.
heappop_last(q) == CHOOSE e \in q : \A f \in q : f = e \/ entry_lt(f, e)

heappop(q) == CHOOSE e \in q : \A f \in q : f = e \/ entry_lt(e, f)

heappop_keep(q) == q

heappop_rest(q) == q \ {heappop(q)}

\* lines 248-253: the loop over neighbors(current); acc = [csf, q].  The
\* updated accumulator is bound by a set quantifier, which hands the next
\* iteration a value rather than an expression to evaluate again.
RECURSIVE relax(_, _, _, _)
relax(nbrs, k, cur_cost, acc) ==
    IF k > Len(nbrs) THEN acc
    ELSE LET next_state == nbrs[k][1]
             step_cost  == nbrs[k][2]
             new_cost   == cur_cost + step_cost
             priority   == new_cost + heuristic(next_state)
         IN  IF next_state \notin DOMAIN acc.csf
                \/ new_cost < acc.csf[next_state]
             THEN CHOOSE r \in
                    { relax(nbrs, k + 1, cur_cost, upd) : upd \in
                        { [csf |-> (next_state :> new_cost) @@ acc.csf,
                           q   |-> acc.q \cup
                                   {<< priority, new_cost, next_state >>}] } }
                    : TRUE
             ELSE relax(nbrs, k + 1, cur_cost, acc)

\* lines 248-253 for the popped entry e: what the loop leaves in [csf, q]
expand(e, rest, csf) ==
    CHOOSE r \in { relax(nbrs, 1, e[2], [csf |-> csf, q |-> rest]) :
                     nbrs \in {neighbors(e[3])} } : TRUE

\* lines 243-255: one pass of the while loop over the search's locals
\* [q, csf], res the value returned once done
search_step(s) ==
    IF s.done THEN s
    ELSE IF s.q = {} THEN [s EXCEPT !.res = None, !.done = TRUE]
    ELSE CHOOSE r \in
           { IF is_completed(e[3]) THEN [s EXCEPT !.res = e[2], !.done = TRUE]
             ELSE CHOOSE r2 \in
                    { [q |-> acc.q, csf |-> acc.csf, res |-> None,
                       done |-> FALSE] :
                        acc \in {expand(e, heappop_rest(s.q), s.csf)} } : TRUE
             : e \in {heappop(s.q)} } : TRUE

\* 2^n passes of the loop, by halving
RECURSIVE search_run(_, _)
search_run(n, s) ==
    IF n = 0 THEN search_step(s)
    ELSE CHOOSE r \in { search_run(n - 1, m) :
                          m \in {search_run(n - 1, s)} } : TRUE

\* the search is followed for 2^MaxPopsLog2 pops
MaxPopsLog2 == 11

\* lines 228-255
a_asterisk_search(st) ==
    search_run(MaxPopsLog2,
               [q |-> {<< 0 + heuristic(st), 0, st >>}, csf |-> (st :> 0),
                res |-> None, done |-> FALSE])

\* ------------------------------------------------------------------------
\* Inputs
\* ------------------------------------------------------------------------
\* number of room slots of a diagram that do not hold their room's type
MaxMisplaced == 2

Row(a, b, c, d) == [i \in 0..3 |-> CASE i = 0 -> a [] i = 1 -> b
                                     [] i = 2 -> c [] i = 3 -> d]

units_of(st, t) ==
    Cardinality({pos \in DOMAIN st.corridor : st.corridor[pos] = t})
    + Cardinality({k \in 0..(4 * ROOM_DEPTH - 1) :
                     st.rooms[k \div ROOM_DEPTH][k % ROOM_DEPTH] = t})

\* a well-formed start: hallway empty, rooms full, two units of every type
well_formed(st) ==
    /\ \A pos \in DOMAIN st.corridor : st.corridor[pos] = "."
    /\ \A t \in Types : units_of(st, t) = ROOM_DEPTH

misplaced(l) ==
    Cardinality({i \in 0..3 : l.top[i] # ABCD[i]})
    + Cardinality({i \in 0..3 : l.bottom[i] # ABCD[i]})

NearSolved ==
    {l \in [top : [0..3 -> Types], bottom : [0..3 -> Types]] :
        well_formed(data_input(l)) /\ misplaced(l) <= MaxMisplaced}

\* three misplaced units; and a diagram with three A and one B
ExtraDiagrams ==
    { [top |-> Row("A", "C", "D", "B"), bottom |-> Row("A", "B", "C", "D")],
      [top |-> Row("A", "A", "C", "D"), bottom |-> Row("A", "B", "C", "D")] }

Diagrams == NearSolved \cup ExtraDiagrams

\* ------------------------------------------------------------------------
\* State
\* ------------------------------------------------------------------------
VARIABLES
    lines,        \* the diagram given to solve()
    start,        \* data_input(lines)
    lst,          \* the heap of a_asterisk_search
    cost_so_far,  \* the dict of a_asterisk_search
    popped,       \* the entry (_, cost, current) of the last heappop
    result,       \* the value a_asterisk_search returned
    ret,          \* the value solve returned
    pc,           \* "solve", "loop", "returned", "done"; "moves" in SpecMoves
    state,        \* SpecMoves: the state handed to the move generator
    energy,       \* SpecMoves: the cost of the move that produced state
    spent         \* SpecCanonical: the total cost of the moves from start

vars == << lines, start, lst, cost_so_far, popped, result, ret, pc,
           state, energy, spent >>

\* ------------------------------------------------------------------------
\* solve() and a_asterisk_search()
\* ------------------------------------------------------------------------
Init ==
    /\ lines \in Diagrams
    /\ start = data_input(lines)
    /\ lst = {}
    /\ cost_so_far = << >>
    /\ popped = << >>
    /\ result = None
    /\ ret = None
    /\ pc = "solve"
    /\ state = data_input(lines)
    /\ energy = 0
    /\ spent = 0

\* lines 239-241
Begin ==
    /\ pc = "solve"
    /\ lst' = {<< 0 + heuristic(start), 0, start >>}
    /\ cost_so_far' = (start :> 0)
    /\ pc' = "loop"
    /\ UNCHANGED << lines, start, popped, result, ret, state, energy, spent >>

\* lines 243-246: the popped state is a goal
PopGoal ==
    /\ pc = "loop"
    /\ lst # {}
    /\ is_completed(heappop(lst)[3])
    /\ popped' = heappop(lst)
    /\ lst' = heappop_rest(lst)
    /\ result' = heappop(lst)[2]
    /\ pc' = "returned"
    /\ UNCHANGED << lines, start, cost_so_far, ret, state, energy, spent >>

\* lines 243-253: the popped state is expanded
PopExpand ==
    /\ pc = "loop"
    /\ lst # {}
    /\ \E e \in {heappop(lst)} :
           /\ ~ is_completed(e[3])
           /\ \E acc \in {expand(e, heappop_rest(lst), cost_so_far)} :
                  /\ popped' = e
                  /\ lst' = acc.q
                  /\ cost_so_far' = acc.csf
    /\ UNCHANGED << lines, start, result, ret, pc, state, energy, spent >>

\* line 255
Exhausted ==
    /\ pc = "loop"
    /\ lst = {}
    /\ result' = None
    /\ pc' = "returned"
    /\ UNCHANGED << lines, start, lst, cost_so_far, popped, ret,
                    state, energy, spent >>

\* line 270
SolveReturn ==
    /\ pc = "returned"
    /\ ret' = IF result # None THEN result ELSE 0
    /\ pc' = "done"
    /\ UNCHANGED << lines, start, lst, cost_so_far, popped, result,
                    state, energy, spent >>

Next == Begin \/ PopGoal \/ PopExpand \/ Exhausted \/ SolveReturn

Spec == Init /\ [][Next]_vars

\* the loop is sequential code: a step that can be taken is taken
FairSpec == Spec /\ WF_vars(Next)

\* ------------------------------------------------------------------------
\* The move generator applied along every legal move sequence
\* ------------------------------------------------------------------------
MovesInit ==
    /\ lines \in {l \in Diagrams : well_formed(data_input(l))}
    /\ start = data_input(lines)
    /\ lst = {}
    /\ cost_so_far = << >>
    /\ popped = << >>
    /\ result = None
    /\ ret = None
    /\ pc = "moves"
    /\ state = data_input(lines)
    /\ energy = 0
    /\ spent = 0

ApplyMovesToTarget(room_id) ==
    /\ pc = "moves"
    /\ \E k \in 1..Len(moves_to_target(state, room_id)) :
           /\ state' = moves_to_target(state, room_id)[k][1]
           /\ energy' = moves_to_target(state, room_id)[k][2]
    /\ UNCHANGED << lines, start, lst, cost_so_far, popped, result, ret, pc,
                    spent >>

ApplyMovesFromHallway(hall_pos) ==
    /\ pc = "moves"
    /\ \E k \in 1..Len(moves_from_hallway(state, hall_pos)) :
           /\ state' = moves_from_hallway(state, hall_pos)[k][1]
           /\ energy' = moves_from_hallway(state, hall_pos)[k][2]
    /\ UNCHANGED << lines, start, lst, cost_so_far, popped, result, ret, pc,
                    spent >>

MovesNext ==
    \/ \E room_id \in 0..3 : ApplyMovesToTarget(room_id)
    \/ \E hall_pos \in 0..(HALL_LEN - 1) : ApplyMovesFromHallway(hall_pos)

SpecMoves == MovesInit /\ [][MovesNext]_vars

\* ------------------------------------------------------------------------
\* The canonical example: the search on it, and beside it every sequence of
\* legal moves from its start whose total cost stays within MaxSpent
\* ------------------------------------------------------------------------
CanonicalDiagram ==
    [top |-> Row("B", "C", "B", "D"), bottom |-> Row("A", "D", "C", "A")]

MaxSpent == 12521

CanonicalInit ==
    /\ lines = CanonicalDiagram
    /\ start = data_input(lines)
    /\ lst = {}
    /\ cost_so_far = << >>
    /\ popped = << >>
    /\ result = None
    /\ ret = None
    /\ pc \in {"solve", "moves"}
    /\ state = data_input(lines)
    /\ energy = 0
    /\ spent = 0

PathMove ==
    /\ pc = "moves"
    /\ \E k \in 1..Len(neighbors(state)) :
           /\ spent + neighbors(state)[k][2] <= MaxSpent
           /\ state' = neighbors(state)[k][1]
           /\ energy' = neighbors(state)[k][2]
           /\ spent' = spent + neighbors(state)[k][2]
    /\ UNCHANGED << lines, start, lst, cost_so_far, popped, result, ret, pc >>

\* lines 258-270: solve() as one step, the search's locals gone on return
SolveCall ==
    /\ pc = "solve"
    /\ \E s \in {a_asterisk_search(start)} :
           /\ s.done
           /\ result' = s.res
           /\ ret' = IF s.res # None THEN s.res ELSE 0
    /\ pc' = "done"
    /\ UNCHANGED << lines, start, lst, cost_so_far, popped, state, energy,
                    spent >>

CanonicalNext == SolveCall \/ PathMove

SpecCanonical == CanonicalInit /\ [][CanonicalNext]_vars

\* the search on the canonical example, pop by pop
CanonicalSearchInit == CanonicalInit /\ pc = "solve"

CanonicalSearchNext == Begin \/ PopGoal \/ PopExpand \/ SolveReturn

SpecCanonicalSearch == CanonicalSearchInit /\ [][CanonicalSearchNext]_vars

\* ------------------------------------------------------------------------
\* The four-row variant of the canonical example: the rows DCBA and DBAC are
\* inserted between its two rows.  data_input reads lines[2] and lines[3]
\* only, here top and bottom.  The search on it is followed until it has
\* recorded MaxRecorded states.
\* ------------------------------------------------------------------------
FourRowDiagram ==
    [top    |-> Row("B", "C", "B", "D"), bottom |-> Row("D", "C", "B", "A"),
     third  |-> Row("D", "B", "A", "C"), fourth |-> Row("A", "D", "C", "A")]

\* the rows of a diagram from the hallway down
rows_of(l) ==
    IF "third" \in DOMAIN l THEN << l.top, l.bottom, l.third, l.fourth >>
    ELSE << l.top, l.bottom >>

MaxRecorded == 1500

FourRowInit ==
    /\ lines = FourRowDiagram
    /\ start = data_input(lines)
    /\ lst = {}
    /\ cost_so_far = << >>
    /\ popped = << >>
    /\ result = None
    /\ ret = None
    /\ pc = "solve"
    /\ state = data_input(lines)
    /\ energy = 0
    /\ spent = 0

PopExpandRecorded ==
    Cardinality(DOMAIN cost_so_far) < MaxRecorded /\ PopExpand

FourRowNext == Begin \/ PopExpandRecorded

SpecFourRow == FourRowInit /\ [][FourRowNext]_vars

\* ------------------------------------------------------------------------
\* Legal move sequences, for the properties that speak of them
\* ------------------------------------------------------------------------
SolvedDiagram ==
    [top |-> Row("A", "B", "C", "D"), bottom |-> Row("A", "B", "C", "D")]

\* some sequence of moves of neighbors() leads from st to a goal state at
\* a total cost of at most budget
RECURSIVE GoalWithin(_, _)
GoalWithin(st, budget) ==
    \/ is_completed(st)
    \/ \E k \in 1..Len(neighbors(st)) :
           /\ neighbors(st)[k][2] <= budget
           /\ GoalWithin(neighbors(st)[k][1], budget - neighbors(st)[k][2])

\* some sequence of moves of neighbors() leads from st to a goal state
RECURSIVE GoalReachable(_)
GoalReachable(st) ==
    \/ is_completed(st)
    \/ \E k \in 1..Len(neighbors(st)) : GoalReachable(neighbors(st)[k][1])

Returned == pc \in {"returned", "done"}

\* ------------------------------------------------------------------------
\* Properties
\* ------------------------------------------------------------------------

\* C1: for a well-formed start from which a goal is reachable, the search
\* returns a cost, and no sequence of legal moves reaches a goal at a lower
\* total cost than the one returned.
C1_ReturnsMinimum ==
    (Returned /\ well_formed(start) /\ GoalReachable(start))
        => (result # None /\ ~ GoalWithin(start, result - 1))

\* C2: admissibility: in every state reachable from a well-formed start from
\* which a goal is reachable, no sequence of legal moves reaches a goal at a
\* total cost below heuristic(state).
C2_Admissible ==
    GoalReachable(state) => ~ GoalWithin(state, heuristic(state) - 1)

\* C3: for every (successor, step_cost) of neighbors(state),
\* heuristic(successor) <= heuristic(state) + step_cost.
C3_HeuristicRisesByAtMostStepCost ==
    \A k \in 1..Len(neighbors(state)) :
        heuristic(neighbors(state)[k][1])
            <= heuristic(state) + neighbors(state)[k][2]

\* C4: when no sequence of legal moves reaches a goal from the start, solve()
\* returns a value other than 0, the value of an already solved start.
C4_UnsolvableIsNotZero ==
    (pc = "done" /\ ~ GoalReachable(start)) => ret # 0

\* C5: from a start that is already a goal the search never expands a state:
\* the first pop returns 0 with nothing but the start entry ever pushed on
\* the queue or recorded in cost_so_far.
C5_SolvedStartReturnsAtOnce ==
    [][ start = data_input(SolvedDiagram)
          => /\ ~ PopExpand
             /\ Returned' => /\ result' = 0
                             /\ popped' = << 0, 0, start >>
                             /\ lst' = {}
                             /\ cost_so_far' = (start :> 0) ]_vars

C5_Witness ==
    start = data_input(SolvedDiagram) /\ pc = "done" /\ ret = 0

\* C6 as stated: is_completed(state) holds iff every slot of every room is
\* empty or holds the room's target type.
C6_GoalIffEmptyOrTarget ==
    is_completed(state)
        <=> \A i \in 0..3 : \A d \in 0..(ROOM_DEPTH - 1) :
                state.rooms[i][d] \in {".", ABCD[i]}

\* C6 amended: is_completed(state) holds iff every slot of every room holds
\* the room's target type; a room with an empty slot is not completed.
C6_GoalIffAllTarget ==
    is_completed(state) <=> state.rooms = data_input(SolvedDiagram).rooms

C6_Witness ==
    /\ ~ is_completed(state)
    /\ \E i \in 0..3 : \E d \in 0..(ROOM_DEPTH - 1) : state.rooms[i][d] = "."
    /\ \A i \in 0..3 : \A d \in 0..(ROOM_DEPTH - 1) :
           state.rooms[i][d] \in {".", ABCD[i]}

\* C7: heuristic(state) = 0 in every state that satisfies the goal predicate.
C7_HeuristicZeroAtGoal ==
    is_completed(state) => heuristic(state) = 0

C7_Witness ==
    is_completed(state) /\ energy > 0

\* C8: conservation: every successor of neighbors(state) holds as many units
\* of each type (and as many empty slots) as state, every reachable state as
\* many as the start, and hallway length and room depth never change.
C8_Conservation ==
    /\ \A t \in Types \cup {"."} : units_of(state, t) = units_of(start, t)
    /\ DOMAIN state.corridor = 0..(HALL_LEN - 1)
    /\ \A i \in 0..3 : DOMAIN state.rooms[i] = 0..(ROOM_DEPTH - 1)
    /\ \A k \in 1..Len(neighbors(state)) :
           LET succ == neighbors(state)[k][1] IN
           /\ \A t \in Types \cup {"."} :
                  units_of(succ, t) = units_of(state, t)
           /\ DOMAIN succ.corridor = DOMAIN state.corridor
           /\ DOMAIN succ.rooms = DOMAIN state.rooms
           /\ \A i \in 0..3 : DOMAIN succ.rooms[i] = DOMAIN state.rooms[i]

C8_Witness ==
    energy > 0 /\ Len(neighbors(state)) > 1

\* C9: hallway positions 2, 4, 6 and 8 are empty in every state reachable
\* from a start with an empty hallway, and in every successor of it.
C9_EntrancesStayEmpty ==
    /\ \A pos \in INVALID_HALL_POS : state.corridor[pos] = "."
    /\ \A k \in 1..Len(neighbors(state)) :
           \A pos \in INVALID_HALL_POS :
               neighbors(state)[k][1].corridor[pos] = "."

\* a unit rests on each side of an entrance column it could have stopped on
C9_Witness ==
    \E pos \in INVALID_HALL_POS :
        state.corridor[pos - 1] # "." /\ state.corridor[pos + 1] # "."

\* C10: the search terminates: eventually a goal entry is popped and its
\* cost returned, or the queue is empty and None is returned, and solve()
\* returns.
C10_Terminates ==
    <>(pc = "done" /\ (result = None \/ result >= 0))

C10_Witness ==
    pc = "done" /\ Cardinality(DOMAIN cost_so_far) > 1 /\ lst # {}

\* C11: for the canonical example the search returns 12521, and 12521 is
\* the minimum: no sequence of legal moves from its start reaches a goal
\* state at a lower total cost.
C11_CanonicalCost ==
    /\ pc = "done" => (result = 12521 /\ ret = 12521)
    /\ (pc = "moves" /\ is_completed(state)) => spent >= 12521

C11_Witness ==
    lines = CanonicalDiagram /\ pc = "done" /\ ret = 12521

\* C12: for the four-row variant of the canonical example the program works
\* on rooms of depth four that hold the four units of their column of the
\* diagram, and yields 44169.
C12_FourRowCost ==
    lines = FourRowDiagram
        => /\ \A i \in 0..3 :
                  /\ DOMAIN start.rooms[i] = 0..(Len(rows_of(lines)) - 1)
                  /\ \A d \in DOMAIN start.rooms[i] :
                         start.rooms[i][d] = rows_of(lines)[d + 1][i]
           /\ Returned => result = 44169
           /\ pc = "done" => ret = 44169

\* C13: for every (successor, step_cost) of neighbors(state),
\* heuristic(state) <= step_cost + heuristic(successor): the heuristic never
\* drops by more than the cost of the move.
C13_HeuristicDropsByAtMostStepCost ==
    \A k \in 1..Len(neighbors(state)) :
        heuristic(state)
            <= neighbors(state)[k][2] + heuristic(neighbors(state)[k][1])

\* a slot of the room deeper than depth holds a unit of another type
mismatch_behind(st, room_id, depth) ==
    \E d \in (depth + 1)..(ROOM_DEPTH - 1) :
        st.rooms[room_id][d] \notin {".", ABCD[room_id]}

\* C14: a unit in its own room in front of a unit of another type adds
\* (depth + 1 + 0 + ROOM_DEPTH) * cost to the heuristic; a unit in its own
\* room with no unit of another type behind it adds 0.
C14_BlockerIsCharged ==
    \A room_id \in 0..3 : \A depth \in 0..(ROOM_DEPTH - 1) :
        state.rooms[room_id][depth] = ABCD[room_id]
            => h_slot(state, room_id, depth)
                 = IF mismatch_behind(state, room_id, depth)
                   THEN (depth + 1 + 0 + ROOM_DEPTH) * COSTS[ABCD[room_id]]
                   ELSE 0

\* the slot k of the rooms, counted room by room from the entrance
room_slot(st, k) == st.rooms[k \div ROOM_DEPTH][k % ROOM_DEPTH]

\* every occupied slot of the room holds the room's type
settled(st, room_id) ==
    \A d \in 0..(ROOM_DEPTH - 1) :
        st.rooms[room_id][d] \in {".", ABCD[room_id]}

\* the non-entrance hallway slots joined to the room's entrance column by
\* empty slots only
free_run(st, room_id) ==
    {p \in (0..(HALL_LEN - 1)) \ INVALID_HALL_POS :
        \A q \in 0..(HALL_LEN - 1) :
            (q # ROOM_INDICES[room_id]
             /\ Min2(p, ROOM_INDICES[room_id]) <= q
             /\ q <= Max2(p, ROOM_INDICES[room_id]))
                => st.corridor[q] = "."}

\* C15: moves_to_target(state, r) is empty when room r is empty or settled;
\* otherwise it has one successor for each slot of the free run around r's
\* entrance and no other, and each moves the unit of the shallowest occupied
\* slot of r to that slot.
C15_RoomToHallway ==
    \A room_id \in 0..3 :
        LET mv == moves_to_target(state, room_id)
            top_d == CHOOSE d \in 0..(ROOM_DEPTH - 1) :
                        /\ state.rooms[room_id][d] # "."
                        /\ \A d2 \in 0..(d - 1) :
                               state.rooms[room_id][d2] = "."
        IN  IF settled(state, room_id) THEN mv = << >>
            ELSE /\ Len(mv) = Cardinality(free_run(state, room_id))
                 /\ {mv[k][1] : k \in 1..Len(mv)}
                      = {[corridor |-> [state.corridor EXCEPT
                                          ![p] = state.rooms[room_id][top_d]],
                          rooms    |-> [state.rooms EXCEPT
                                          ![room_id][top_d] = "."]] :
                            p \in free_run(state, room_id)}

\* a room releases into a run that a hallway unit cuts short
C15_Witness ==
    /\ energy > 0
    /\ \E room_id \in 0..3 :
           /\ Len(moves_to_target(state, room_id)) > 0
           /\ Len(moves_to_target(state, room_id)) < 7

\* the unit on hallway slot p may enter its room
may_enter(st, p) ==
    /\ st.corridor[p] # "."
    /\ LET t  == ABCD_index(st.corridor[p])
           rp == ROOM_INDICES[t]
       IN  /\ \A d \in 0..(ROOM_DEPTH - 1) :
                  st.rooms[t][d] \in {".", st.corridor[p]}
           /\ \A q \in 0..(HALL_LEN - 1) :
                  ((p < q /\ q < rp) \/ (rp < q /\ q < p))
                      => st.corridor[q] = "."
           /\ \E d \in 0..(ROOM_DEPTH - 1) : st.rooms[t][d] = "."

\* C16: moves_from_hallway(state, p) has exactly one successor when the unit
\* on p may enter its room and none otherwise; the successor puts the unit
\* on the deepest empty slot of its target room and changes nothing else.
C16_HallwayToRoom ==
    \A p \in 0..(HALL_LEN - 1) :
        LET mv == moves_from_hallway(state, p) IN
        IF may_enter(state, p)
        THEN LET t  == ABCD_index(state.corridor[p])
                 dd == CHOOSE d \in 0..(ROOM_DEPTH - 1) :
                          /\ state.rooms[t][d] = "."
                          /\ \A d2 \in (d + 1)..(ROOM_DEPTH - 1) :
                                 state.rooms[t][d2] # "."
             IN  /\ Len(mv) = 1
                 /\ mv[1][1] = [corridor |-> [state.corridor EXCEPT
                                                ![p] = "."],
                                rooms    |-> [state.rooms EXCEPT
                                                ![t][dd] = state.corridor[p]]]
        ELSE mv = << >>

\* one hallway unit may enter its room while another may not
C16_Witness ==
    \E p, q \in 0..(HALL_LEN - 1) :
        /\ Len(moves_from_hallway(state, p)) = 1
        /\ state.corridor[q] # "."
        /\ moves_from_hallway(state, q) = << >>

\* the hallway slot and the room slot in which two states differ
hall_changed(s, t) ==
    {p \in 0..(HALL_LEN - 1) : s.corridor[p] # t.corridor[p]}

rooms_changed(s, t) ==
    {k \in 0..(4 * ROOM_DEPTH - 1) : room_slot(s, k) # room_slot(t, k)}

\* C17: the cost of every move is (depth index of the room slot left or
\* reached + 1 + distance between the hallway slot and the room's entrance
\* column) times 1, 10, 100, 1000 for A, B, C, D, and is positive.
C17_StepCost ==
    \A k \in 1..Len(neighbors(state)) :
        LET succ == neighbors(state)[k][1]
            p    == CHOOSE x \in hall_changed(state, succ) : TRUE
            r    == CHOOSE x \in rooms_changed(state, succ) : TRUE
            unit == IF state.corridor[p] # "." THEN state.corridor[p]
                    ELSE succ.corridor[p]
            per_step == CASE unit = "A" -> 1 [] unit = "B" -> 10
                          [] unit = "C" -> 100 [] unit = "D" -> 1000
        IN  /\ neighbors(state)[k][2]
                 = ((r % ROOM_DEPTH) + 1
                    + Abs(p - (2 * (r \div ROOM_DEPTH) + 2))) * per_step
            /\ neighbors(state)[k][2] > 0

\* both kinds of move are on offer, one of them from a back slot
C17_Witness ==
    /\ \E p \in 0..(HALL_LEN - 1) : Len(moves_from_hallway(state, p)) = 1
    /\ \E room_id \in 0..3 :
           /\ state.rooms[room_id][0] = "."
           /\ Len(moves_to_target(state, room_id)) > 0

\* C18: every successor of neighbors(state) differs from state in exactly
\* one hallway slot and one room slot, between which one unit has moved:
\* out of the room, or from the hallway into the room of its type.
C18_OneUnitMoves ==
    \A k \in 1..Len(neighbors(state)) :
        LET succ == neighbors(state)[k][1] IN
        /\ Cardinality(hall_changed(state, succ)) = 1
        /\ Cardinality(rooms_changed(state, succ)) = 1
        /\ \E p \in hall_changed(state, succ) :
             \E r \in rooms_changed(state, succ) :
               \/ /\ state.corridor[p] = "."
                  /\ room_slot(succ, r) = "."
                  /\ succ.corridor[p] = room_slot(state, r)
               \/ /\ succ.corridor[p] = "."
                  /\ room_slot(state, r) = "."
                  /\ room_slot(succ, r) = state.corridor[p]
                  /\ ABCD[r \div ROOM_DEPTH] = state.corridor[p]

\* a back slot releases its unit while a hallway unit may enter its room
C18_Witness ==
    /\ \E p \in 0..(HALL_LEN - 1) : Len(moves_from_hallway(state, p)) = 1
    /\ \E room_id \in 0..3 :
           /\ state.rooms[room_id][0] = "."
           /\ Len(moves_to_target(state, room_id)) > 1

\* the entry the next pop takes was queued at a cost that has since been
\* undercut for its state
stale_on_top ==
    /\ pc = "loop"
    /\ lst # {}
    /\ heappop(lst)[2] > cost_so_far[heappop(lst)[3]]

\* C19: a step that pops a stale entry leaves cost_so_far as it was and the
\* queue as it was but for the popped entry; and no step pops an entry while
\* the queue holds an entry for the same state at a lower cost.
C19_StaleEntriesHarmless ==
    [][ /\ stale_on_top => /\ cost_so_far' = cost_so_far
                           /\ lst' = lst \ {heappop(lst)}
        /\ (pc = "loop" /\ popped' # popped)
               => \A f \in lst : (f[3] = popped'[3]) => popped'[2] <= f[2]
      ]_vars

\* the search has just popped a stale entry
C19_Witness ==
    /\ pc = "loop"
    /\ popped # << >>
    /\ popped[2] > cost_so_far[popped[3]]

\* C20: from a start whose rooms are all full, no room of a reached state
\* has an empty slot deeper than an occupied one; so in every move on offer
\* the room slot left or entered has only empty slots in front of it.
C20_RoomsPackedFromTheBack ==
    /\ \A room_id \in 0..3 : \A d \in 0..(ROOM_DEPTH - 1) :
           state.rooms[room_id][d] = "."
               => \A d2 \in 0..(d - 1) : state.rooms[room_id][d2] = "."
    /\ \A k \in 1..Len(neighbors(state)) :
           \A r \in rooms_changed(state, neighbors(state)[k][1]) :
               \A r2 \in 0..(4 * ROOM_DEPTH - 1) :
                   (r2 \div ROOM_DEPTH = r \div ROOM_DEPTH /\ r2 < r)
                       => room_slot(state, r2) = "."

\* a unit has entered the back of its emptied room, the front still empty,
\* while another room is empty and a hallway unit is about to enter it
C20_Witness ==
    /\ \E room_id \in 0..3 :
           /\ start.rooms[room_id][ROOM_DEPTH - 1] # ABCD[room_id]
           /\ state.rooms[room_id][ROOM_DEPTH - 1] = ABCD[room_id]
           /\ state.rooms[room_id][0] = "."
    /\ \E p \in 0..(HALL_LEN - 1) :
           /\ Len(moves_from_hallway(state, p)) = 1
           /\ \A d \in 0..(ROOM_DEPTH - 1) :
                  state.rooms[ABCD_index(state.corridor[p])][d] = "."

====
